---- MODULE Spec2Model ----
(***************************************************************************)
(* A state-machine model of the django-ec storefront backend               *)
(* (src/api/views.py, src/api/utils.py, src/api/admin.py,                  *)
(* src/api/management/commands/seed.py, src/Project/urls.py).              *)
(*                                                                         *)
(* The database tables are functions from primary keys to rows; a row that *)
(* does not exist is NoRow.  Every REST handler is one action: it reads    *)
(* the tables, writes them, and leaves the request it served and the       *)
(* response it gave in the variables request and response.  The 'download' *)
(* handler alone is two actions, its read and its write, because requests  *)
(* are served concurrently and it does nothing to keep the two together.   *)
(***************************************************************************)
EXTENDS Integers, Sequences, FiniteSets, TLC

VARIABLES
    catalog,        \* [Kinds -> [pk -> row]]: categories, brands, tags, products, images, files
    reviews,        \* [pk -> row]: Review(user, product, admin_response)
    tables,         \* [TableNames -> [pk -> row]]: profiles, wishlists, carts and their items
    orders,         \* [pk -> row]: Order(user, status, ...)
    downloads,      \* [request slot -> state of one in-flight 'download' request]
    request,        \* the request served last
    response        \* the response given to it

vars == <<catalog, reviews, tables, orders, downloads, request, response>>

-----------------------------------------------------------------------------
(* Bounds of the model *)

MaxProduct == 2     \* product primary keys 1..MaxProduct
MaxCatalog == 1     \* primary keys of every other catalog table
MaxStock == 2       \* Product.stock ranges over 0..MaxStock
MaxReview == 2      \* review primary keys
MaxRows == 2        \* primary keys of each per-user table
MaxOrder == 2       \* order primary keys
MaxItems == 2       \* order items per order
MaxRequests == 3    \* concurrent 'download' requests

-----------------------------------------------------------------------------
(* Users and permissions *)

Users == {"alice", "bob", "admin"}
Anonymous == "anonymous"
Requesters == Users \cup {Anonymous}

is_staff(user) == user = "admin"
is_authenticated(user) == user \in Users

AllowAny(user) == TRUE
IsAuthenticated(user) == is_authenticated(user)
IsAdminUser(user) == is_authenticated(user) /\ is_staff(user)

NoRow == [exists |-> FALSE]
None == [kind |-> "none"]

Response(status, body) == [status |-> status, body |-> body]
NoRequest == [action |-> "none", user |-> Anonymous]
NoResponse == Response(0, [detail |-> "none"])

\* A request the permission classes refuse: 401 or 403, by the authentication
\* scheme in use.
DeniedStatuses == {401, 403}
Denied(status) == Response(status, [detail |-> "permission denied"])
NotFound == Response(404, [detail |-> "Not found."])

Pks(table) == {pk \in DOMAIN table : table[pk].exists}

\* The primary key the database gives the next row of a table (none when the
\* table's modelled key range is used up).
FreePks(table) == {pk \in DOMAIN table : ~table[pk].exists}
NextPk(table) == CHOOSE pk \in FreePks(table) : \A other \in FreePks(table) : pk <= other

-----------------------------------------------------------------------------
(* The catalog *)

Kinds == {"category", "brand", "tag", "product", "product_image", "product_file"}
ProductIds == 1..MaxProduct
CatalogIds == 1..MaxCatalog
KindIds(kind) == IF kind = "product" THEN ProductIds ELSE CatalogIds
FieldValues == {"a", "b"}

products == catalog["product"]

\* The rows a catalog table can hold: the fields the model needs of each.
CatalogRows(kind) ==
    CASE kind = "product" ->
            [exists : {TRUE}, data : FieldValues, is_available : BOOLEAN, stock : 0..MaxStock]
      [] kind = "product_file" ->
            [exists : {TRUE}, data : FieldValues, downloads_count : {0}]
      [] OTHER -> [exists : {TRUE}, data : FieldValues]

EmptyCatalog == [kind \in Kinds |-> [pk \in KindIds(kind) |-> NoRow]]

-----------------------------------------------------------------------------
(* The per-user tables: Profile(user, data), Wishlist(user),               *)
(* WishlistItem(wishlist, product), Cart(user),                            *)
(* CartItem(cart, product, quantity)                                       *)

TableNames == {"profile", "wishlist", "wishlist_item", "cart", "cart_item"}
RowIds == 1..MaxRows

EmptyTables == [name \in TableNames |-> [pk \in RowIds |-> NoRow]]

profiles == tables["profile"]
wishlists == tables["wishlist"]
wishlistItems == tables["wishlist_item"]
carts == tables["cart"]
cartItems == tables["cart_item"]

Profile_get_queryset(user) == {pk \in Pks(profiles) : profiles[pk].user = user}
Wishlist_get_queryset(user) == {pk \in Pks(wishlists) : wishlists[pk].user = user}
WishlistItem_get_queryset(user) ==
    {pk \in Pks(wishlistItems) : wishlists[wishlistItems[pk].wishlist].user = user}
Cart_get_queryset(user) == {pk \in Pks(carts) : carts[pk].user = user}
CartItem_get_queryset(user) ==
    {pk \in Pks(cartItems) : carts[cartItems[pk].cart].user = user}

-----------------------------------------------------------------------------
(* CartItemViewSet.update_quantity *)

\* What request.data.get("quantity") can be: absent, a JSON number, or text.
DigitText == ("0" :> 0) @@ ("1" :> 1) @@ ("2" :> 2) @@ ("3" :> 3) @@ ("4" :> 4)
QuantityNumbers == (0 - 1)..(MaxStock + 1)
QuantityInputs ==
    {None}
    \cup {[kind |-> "int", num |-> n] : n \in QuantityNumbers}
    \cup {[kind |-> "text", txt |-> s] : s \in {"2", "abc"}}

\* Python's int(): a number is itself, a text of digits is parsed, any other
\* text raises ValueError.
int_raises(quantity) == quantity.kind = "text" /\ quantity.txt \notin DOMAIN DigitText
int(quantity) == IF quantity.kind = "int" THEN quantity.num ELSE DigitText[quantity.txt]

below_minimum_wrong(quantity) == quantity = None \/ int(quantity) < 0
below_minimum(quantity) == quantity = None \/ int(quantity) < 1

not_enough_stock_wrong(quantity, stock) == quantity > stock + 1
not_enough_stock(quantity, stock) == quantity > stock

CartItemSerializer(pk, row) ==
    [id |-> pk, cart |-> row.cart, product |-> row.product, quantity |-> row.quantity]

update_quantity(user, pk, quantity) ==
    /\ request' = [action |-> "update_quantity", table |-> "cart_item", user |-> user,
                   pk |-> pk, quantity |-> quantity]
    /\ IF ~IsAuthenticated(user)
       THEN /\ \E status \in DeniedStatuses : response' = Denied(status)
            /\ UNCHANGED tables
       ELSE IF pk \notin CartItem_get_queryset(user)
       THEN /\ response' = NotFound
            /\ UNCHANGED tables
       ELSE IF quantity # None /\ int_raises(quantity)
       THEN \* int(quantity) on line 328 is outside the try block
            /\ response' = Response(500, [exception |-> "ValueError"])
            /\ UNCHANGED tables
       ELSE IF below_minimum(quantity)
       THEN /\ response' = Response(400, [error |-> "Quantity must be at least 1"])
            /\ UNCHANGED tables
       ELSE IF not_enough_stock(int(quantity), products[cartItems[pk].product].stock)
       THEN /\ response' = Response(400, [error |-> "Not enough stock"])
            /\ UNCHANGED tables
       ELSE /\ tables' = [tables EXCEPT !["cart_item"][pk].quantity = int(quantity)]
            /\ response' = Response(200, CartItemSerializer(pk, tables'["cart_item"][pk]))
    /\ UNCHANGED <<catalog, reviews, orders, downloads>>

\* ProductAdmin lists 'stock' in list_editable: staff change it in the console.
ProductAdmin_edit_stock(user, pk, stock) ==
    /\ IsAdminUser(user)
    /\ pk \in Pks(products)
    /\ stock # products[pk].stock
    /\ catalog' = [catalog EXCEPT !["product"][pk].stock = stock]
    /\ request' = [action |-> "admin_edit_stock", user |-> user, pk |-> pk, stock |-> stock]
    /\ response' = Response(302, [detail |-> "changed"])
    /\ UNCHANGED <<reviews, tables, orders, downloads>>

-----------------------------------------------------------------------------
(* Tables the later sections fill in *)

ReviewIds == 1..MaxReview
OrderIds == 1..MaxOrder
RequestSlots == 1..MaxRequests

EmptyReviews == [pk \in ReviewIds |-> NoRow]
EmptyOrders == [pk \in OrderIds |-> NoRow]
Idle == [pc |-> "idle", pk |-> 0, downloads_count |-> 0]
IdleDownloads == [slot \in RequestSlots |-> Idle]

-----------------------------------------------------------------------------
(* Cart quantities against stock: the states seed.py leaves (every user a  *)
(* cart, cart items with a quantity drawn without regard to stock), then   *)
(* update_quantity requests and stock edits in the admin console.          *)

\* The two products the seeded cart items are of, with any stock.
SeedProducts ==
    {p \in [ProductIds -> {NoRow} \cup [exists : {TRUE}, data : {"a"}, is_available : {TRUE},
                                        stock : 0..MaxStock]] :
        \A pk \in ProductIds : p[pk].exists <=> pk \in {1, MaxProduct}}
SeedCarts ==
    [pk \in RowIds |-> IF pk = 1 THEN [exists |-> TRUE, user |-> "alice"]
                       ELSE IF pk = 2 THEN [exists |-> TRUE, user |-> "bob"]
                       ELSE NoRow]
SeedCartItems ==
    {items \in [RowIds -> {NoRow} \cup [exists : {TRUE}, cart : Pks(SeedCarts),
                                        product : ProductIds, quantity : 1..(MaxStock + 1)]] :
        /\ items[1].exists /\ items[1].cart = 1 /\ items[1].product = 1
        /\ items[2].exists => items[2].cart = 2 /\ items[2].product = MaxProduct
        /\ \A pk \in RowIds \ {1, 2} : ~items[pk].exists}

InitCart ==
    /\ \E p \in SeedProducts : catalog = [EmptyCatalog EXCEPT !["product"] = p]
    /\ \E items \in SeedCartItems :
          tables = [EmptyTables EXCEPT !["cart"] = SeedCarts, !["cart_item"] = items]
    /\ reviews = EmptyReviews
    /\ orders = EmptyOrders
    /\ downloads = IdleDownloads
    /\ request = NoRequest
    /\ response = NoResponse

NextCart ==
    \/ \E user \in Requesters, pk \in RowIds, quantity \in QuantityInputs :
          update_quantity(user, pk, quantity)
    \/ \E user \in Users, pk \in ProductIds, stock \in 0..MaxStock :
          ProductAdmin_edit_stock(user, pk, stock)

SpecCart == InitCart /\ [][NextCart]_vars

\* The requester of the last request owns cart item pk.
OwnsCartItem(user, pk) ==
    /\ pk \in RowIds
    /\ cartItems[pk].exists
    /\ carts[cartItems[pk].cart].exists
    /\ carts[cartItems[pk].cart].user = user
    /\ user \in Users

IsIntegerQuantity(quantity) ==
    \/ quantity.kind = "int"
    \/ quantity.kind = "text" /\ quantity.txt \in DOMAIN DigitText

IntegerOf(quantity) ==
    IF quantity.kind = "int" THEN quantity.num ELSE DigitText[quantity.txt]

\* C1: right after update_quantity on a cart item of the requester with an
\* integer quantity q, the request has succeeded (200, the item returned, q
\* stored) exactly when 1 <= q <= the product's stock, and then the stored
\* quantity lies between 1 and that stock.
C1_UpdateQuantityIffWithinStock ==
    (/\ request.action = "update_quantity"
     /\ OwnsCartItem(request.user, request.pk)
     /\ IsIntegerQuantity(request.quantity))
    => LET q == IntegerOf(request.quantity)
           item == cartItems[request.pk]
           stock == products[item.product].stock
       IN /\ (response.status = 200) <=> (1 <= q /\ q <= stock)
          /\ response.status = 200 =>
                /\ item.quantity = q
                /\ response.body = [id |-> request.pk, cart |-> item.cart,
                                    product |-> item.product, quantity |-> q]
                /\ 1 <= item.quantity
                /\ item.quantity <= stock

C1_Witness ==
    /\ request.action = "update_quantity"
    /\ OwnsCartItem(request.user, request.pk)
    /\ request.quantity = [kind |-> "int", num |-> MaxStock]
    /\ response.status = 200
    /\ cartItems[request.pk].quantity = MaxStock
    /\ products[cartItems[request.pk].product].stock = MaxStock

\* C2: an update_quantity request on the requester's own item that is
\* rejected (quantity missing, below 1, or above the product's stock) is
\* answered 400 with an error message, and the cart item, the cart and the
\* product stock are as they were.
C2_RejectedUpdateChangesNothing ==
    [][(/\ request'.action = "update_quantity"
        /\ OwnsCartItem(request'.user, request'.pk)
        /\ \/ request'.quantity = None
           \/ /\ IsIntegerQuantity(request'.quantity)
              /\ \/ IntegerOf(request'.quantity) < 1
                 \/ IntegerOf(request'.quantity)
                        > products[cartItems[request'.pk].product].stock)
       => /\ response'.status = 400
          /\ DOMAIN response'.body = {"error"}
          /\ tables' = tables
          /\ catalog' = catalog]_vars

C2_Witness ==
    /\ request.action = "update_quantity"
    /\ OwnsCartItem(request.user, request.pk)
    /\ request.quantity.kind = "int"
    /\ request.quantity.num > products[cartItems[request.pk].product].stock
    /\ response = Response(400, [error |-> "Not enough stock"])
    /\ cartItems[request.pk].quantity <= products[cartItems[request.pk].product].stock

-----------------------------------------------------------------------------
(* Reviews: ReviewViewSet and the 'reviews' action of ProductViewSet *)

ResponseTexts == {[kind |-> "text", txt |-> "thank you"]}
ReviewRows ==
    [exists : {TRUE}, user : Users, product : ProductIds,
     admin_response : {None} \cup ResponseTexts]

ReviewSerializer(pk) ==
    [id |-> pk, user |-> reviews[pk].user, product |-> reviews[pk].product,
     admin_response |-> reviews[pk].admin_response]

\* ReviewViewSet.get_queryset: Q(user=request.user) | Q(admin_response__isnull=False)
Review_get_queryset_wrong(user) ==
    IF ~is_staff(user)
    THEN IF is_authenticated(user)
         THEN {pk \in Pks(reviews) : reviews[pk].user = user}
         ELSE {pk \in Pks(reviews) : reviews[pk].admin_response # None}
    ELSE Pks(reviews)
Review_get_queryset(user) ==
    IF ~is_staff(user)
    THEN IF is_authenticated(user)
         THEN {pk \in Pks(reviews) :
                  reviews[pk].user = user \/ reviews[pk].admin_response # None}
         ELSE {pk \in Pks(reviews) : reviews[pk].admin_response # None}
    ELSE Pks(reviews)

\* ReviewViewSet.get_permissions
Review_get_permissions(action, user) ==
    IF action \in {"create"} THEN IsAuthenticated(user)
    ELSE IF action \in {"update", "partial_update", "destroy"} THEN IsAuthenticated(user)
    ELSE AllowAny(user)

\* ProductViewSet.get_queryset: non-staff see the available products only.
Product_get_queryset(user) ==
    IF ~is_staff(user)
    THEN {pk \in Pks(products) : products[pk].is_available}
    ELSE Pks(products)

Review_list(user) ==
    /\ Review_get_permissions("list", user)
    /\ request' = [action |-> "review_list", user |-> user]
    /\ response' = Response(200, {ReviewSerializer(pk) : pk \in Review_get_queryset(user)})
    /\ UNCHANGED <<catalog, reviews, tables, orders, downloads>>

Review_retrieve(user, pk) ==
    /\ Review_get_permissions("retrieve", user)
    /\ request' = [action |-> "review_retrieve", user |-> user, pk |-> pk]
    /\ response' = IF pk \in Review_get_queryset(user)
                   THEN Response(200, {ReviewSerializer(pk)})
                   ELSE NotFound
    /\ UNCHANGED <<catalog, reviews, tables, orders, downloads>>

\* perform_create: serializer.save(user=self.request.user); the body's own
\* 'user' is overridden.
Review_create(user, named_user, product) ==
    /\ request' = [action |-> "review_create", user |-> user, named_user |-> named_user,
                   product |-> product]
    /\ IF ~Review_get_permissions("create", user)
       THEN /\ \E status \in DeniedStatuses : response' = Denied(status)
            /\ UNCHANGED reviews
       ELSE /\ FreePks(reviews) # {}
            /\ product \in Pks(products)
            /\ LET pk == NextPk(reviews)
               IN /\ reviews' = [reviews EXCEPT ![pk] =
                                    [exists |-> TRUE, user |-> user, product |-> product,
                                     admin_response |-> None]]
                  /\ response' = Response(201, {[id |-> pk, user |-> user, product |-> product,
                                                 admin_response |-> None]})
    /\ UNCHANGED <<catalog, tables, orders, downloads>>

\* destroy: any authenticated requester, on an object of their queryset.
Review_destroy(user, pk) ==
    /\ request' = [action |-> "review_destroy", user |-> user, pk |-> pk]
    /\ IF ~Review_get_permissions("destroy", user)
       THEN /\ \E status \in DeniedStatuses : response' = Denied(status)
            /\ UNCHANGED reviews
       ELSE IF pk \notin Review_get_queryset(user)
       THEN /\ response' = NotFound
            /\ UNCHANGED reviews
       ELSE /\ reviews' = [reviews EXCEPT ![pk] = NoRow]
            /\ response' = Response(204, {})
    /\ UNCHANGED <<catalog, tables, orders, downloads>>

\* ProductViewSet.reviews: product.reviews.all() of a product of the
\* requester's product queryset; no review filter is applied.
Product_reviews(user, product) ==
    /\ AllowAny(user)
    /\ request' = [action |-> "product_reviews", user |-> user, product |-> product]
    /\ response' = IF product \in Product_get_queryset(user)
                   THEN Response(200, {ReviewSerializer(pk) :
                                          pk \in {r \in Pks(reviews) : reviews[r].product = product}})
                   ELSE NotFound
    /\ UNCHANGED <<catalog, reviews, tables, orders, downloads>>

\* ReviewAdmin lists 'admin_response' in list_editable: staff answer a review
\* in the console.
ReviewAdmin_edit_response(user, pk, text) ==
    /\ IsAdminUser(user)
    /\ pk \in Pks(reviews)
    /\ reviews[pk].admin_response # text
    /\ reviews' = [reviews EXCEPT ![pk].admin_response = text]
    /\ request' = [action |-> "admin_edit_response", user |-> user, pk |-> pk]
    /\ response' = Response(302, [detail |-> "changed"])
    /\ UNCHANGED <<catalog, tables, orders, downloads>>

\* The states seed.py leaves: reviews by ordinary users, some answered.
SeedReviews ==
    {seeded \in [ReviewIds -> {NoRow} \cup
                     [exists : {TRUE}, user : {"alice", "bob"}, product : {1, MaxProduct},
                      admin_response : {None} \cup ResponseTexts]] :
        \A pk \in ReviewIds \ {1, 2} : ~seeded[pk].exists}
\* Product 1 is available; the other reviewed product may not be.
SeedReviewProducts ==
    {p \in [ProductIds -> {NoRow} \cup [exists : {TRUE}, data : {"a"}, is_available : BOOLEAN,
                                        stock : {1}]] :
        /\ \A pk \in ProductIds : p[pk].exists <=> pk \in {1, MaxProduct}
        /\ p[1].is_available}

InitReview ==
    /\ \E p \in SeedReviewProducts : catalog = [EmptyCatalog EXCEPT !["product"] = p]
    /\ reviews \in SeedReviews
    /\ tables = EmptyTables
    /\ orders = EmptyOrders
    /\ downloads = IdleDownloads
    /\ request = NoRequest
    /\ response = NoResponse

\* Reviews are written by ordinary users (staff answer them in the console);
\* is_staff is read by the querysets only.
NextReview ==
    \/ \E user \in Requesters : Review_list(user)
    \/ \E user \in Requesters, pk \in ReviewIds : Review_retrieve(user, pk)
    \/ \E user \in {"alice", "bob", Anonymous}, named_user \in Users, product \in ProductIds :
          Review_create(user, named_user, product)
    \/ \E user \in Requesters, pk \in ReviewIds : Review_destroy(user, pk)
    \/ \E user \in Requesters, product \in ProductIds : Product_reviews(user, product)
    \/ \E user \in Users, pk \in ReviewIds, text \in {None} \cup ResponseTexts :
          ReviewAdmin_edit_response(user, pk, text)

SpecReview == InitReview /\ [][NextReview]_vars

\* The reviews the visibility rule shows a requester.
VisibleReviews(user) ==
    IF user = "admin" THEN {pk \in ReviewIds : reviews[pk].exists}
    ELSE IF user \in Users
    THEN {pk \in ReviewIds : reviews[pk].exists /\
             (reviews[pk].user = user \/ reviews[pk].admin_response # None)}
    ELSE {pk \in ReviewIds : reviews[pk].exists /\ reviews[pk].admin_response # None}

ReturnedReviewIds == {row.id : row \in response.body}

C4_NoUnansweredForeignReviewReturned ==
    (/\ request.action \in {"review_list", "review_retrieve", "product_reviews"}
     /\ request.user # "admin"
     /\ response.status = 200)
    => \A row \in response.body :
          row.user = request.user \/ row.admin_response # None

-----------------------------------------------------------------------------
(* Profiles, wishlists and carts: ProfileViewSet, WishlistViewSet,         *)
(* WishlistItemViewSet, CartViewSet, CartItemViewSet                       *)

OwnerTables == {"profile", "wishlist", "cart"}
ItemTables == {"wishlist_item", "cart_item"}
ParentOf(name) == IF name = "wishlist_item" THEN "wishlist" ELSE "cart"
ParentField(name, row) == IF name = "wishlist_item" THEN row.wishlist ELSE row.cart

\* get_queryset of the viewset of table 'name'.
get_queryset(name, user) ==
    CASE name = "profile" -> Profile_get_queryset(user)
      [] name = "wishlist" -> Wishlist_get_queryset(user)
      [] name = "wishlist_item" -> WishlistItem_get_queryset(user)
      [] name = "cart" -> Cart_get_queryset(user)
      [] name = "cart_item" -> CartItem_get_queryset(user)

\* The three families of tables (profiles; wishlists and their items; carts
\* and their items) never read or write one another.  The model explores one
\* family at a time: a request on a table is served while the tables of the
\* other families are empty.
Family(name) ==
    CASE name = "profile" -> {"profile"}
      [] name \in {"wishlist", "wishlist_item"} -> {"wishlist", "wishlist_item"}
      [] name \in {"cart", "cart_item"} -> {"cart", "cart_item"}
OneFamily(name) == \A other \in TableNames \ Family(name) : Pks(tables[other]) = {}

Ref(name, pk) == [table |-> name, id |-> pk]

\* The row a new Profile / Wishlist / Cart of 'user' starts as.
NewOwnerRow(name, user, data) ==
    IF name = "profile" THEN [exists |-> TRUE, user |-> user, data |-> data]
    ELSE [exists |-> TRUE, user |-> user]

\* Model.objects.get_or_create(user=user): the one row of the user, a new row
\* when there is none, MultipleObjectsReturned when there are several.
get_or_create(tbls, name, user) ==
    LET matches == {pk \in Pks(tbls[name]) : tbls[name][pk].user = user}
    IN IF matches = {}
       THEN [raised |-> FALSE, created |-> TRUE, pk |-> NextPk(tbls[name]),
             tables |-> [tbls EXCEPT ![name][NextPk(tbls[name])] =
                                         NewOwnerRow(name, user, "a")]]
       ELSE IF Cardinality(matches) = 1
       THEN [raised |-> FALSE, created |-> FALSE, pk |-> CHOOSE pk \in matches : TRUE,
             tables |-> tbls]
       ELSE [raised |-> TRUE, created |-> FALSE, pk |-> 0, tables |-> tbls]

\* The model can hold the rows get_or_create may add.
CanGetOrCreate(tbls, name, user) ==
    (\A pk \in Pks(tbls[name]) : tbls[name][pk].user # user)
    => FreePks(tbls[name]) # {}

MultipleObjectsReturned == Response(500, {})

\* What a create or update request's body can name for table 'name'; 'user'
\* and the parent wishlist/cart are the owner the body names.
Bodies(name) ==
    CASE name = "profile" -> [user : Users, data : FieldValues]
      [] name \in {"wishlist", "cart"} -> [user : Users]
      [] name = "wishlist_item" -> [wishlist : RowIds, product : ProductIds]
      [] name = "cart_item" -> [cart : RowIds, product : ProductIds, quantity : {1}]

\* The fields an update request's body can set (the owner link is not one).
UpdateBodies(name) ==
    CASE name = "profile" -> [data : FieldValues]
      [] name \in {"wishlist", "cart"} -> [data : {"a"}]
      [] name = "wishlist_item" -> [product : ProductIds]
      [] name = "cart_item" -> [product : ProductIds, quantity : {1}]

\* perform_create of the five viewsets: serializer.save(user=request.user),
\* or serializer.save(wishlist=/cart= the requester's own, got or created).
perform_create_wrong(tbls, name, user, body) ==
    IF name \in OwnerTables
    THEN [raised |-> FALSE, pk |-> NextPk(tbls[name]),
          tables |-> [tbls EXCEPT ![name][NextPk(tbls[name])] =
                                      NewOwnerRow(name, body.user,
                                                  IF name = "profile" THEN body.data ELSE "a")]]
    ELSE LET parent == get_or_create(tbls, ParentOf(name), user)
             named == IF tbls[ParentOf(name)][ParentField(name, body)].exists
                      THEN ParentField(name, body) ELSE parent.pk
             pk == NextPk(parent.tables[name])
         IN IF parent.raised
            THEN [raised |-> TRUE, pk |-> 0, tables |-> tbls]
            ELSE [raised |-> FALSE, pk |-> pk,
                  tables |-> [parent.tables EXCEPT ![name][pk] =
                      IF name = "wishlist_item"
                      THEN [exists |-> TRUE, wishlist |-> named, product |-> body.product]
                      ELSE [exists |-> TRUE, cart |-> named, product |-> body.product,
                            quantity |-> body.quantity]]]
perform_create(tbls, name, user, body) ==
    IF name \in OwnerTables
    THEN [raised |-> FALSE, pk |-> NextPk(tbls[name]),
          tables |-> [tbls EXCEPT ![name][NextPk(tbls[name])] =
                                      NewOwnerRow(name, user,
                                                  IF name = "profile" THEN body.data ELSE "a")]]
    ELSE LET parent == get_or_create(tbls, ParentOf(name), user)
             pk == NextPk(parent.tables[name])
         IN IF parent.raised
            THEN [raised |-> TRUE, pk |-> 0, tables |-> tbls]
            ELSE [raised |-> FALSE, pk |-> pk,
                  tables |-> [parent.tables EXCEPT ![name][pk] =
                      IF name = "wishlist_item"
                      THEN [exists |-> TRUE, wishlist |-> parent.pk, product |-> body.product]
                      ELSE [exists |-> TRUE, cart |-> parent.pk, product |-> body.product,
                            quantity |-> body.quantity]]]

\* The serializers are not in the source tree.  On update they are taken to
\* keep the owner link of the row (user, wishlist, cart) and to write the
\* other fields from the body.
serializer_update(name, row, body) ==
    CASE name = "profile" -> [row EXCEPT !.data = body.data]
      [] name \in {"wishlist", "cart"} -> row
      [] name = "wishlist_item" -> [row EXCEPT !.product = body.product]
      [] name = "cart_item" -> [row EXCEPT !.product = body.product,
                                           !.quantity = body.quantity]

\* Deleting a wishlist or cart deletes its items with it (the foreign keys
\* are taken to cascade; the models are not in the source tree).
delete_row(tbls, name, pk) ==
    LET gone == [tbls EXCEPT ![name][pk] = NoRow]
    IN CASE name = "wishlist" ->
              [gone EXCEPT !["wishlist_item"] =
                  [i \in RowIds |-> IF gone["wishlist_item"][i].exists
                                       /\ gone["wishlist_item"][i].wishlist = pk
                                    THEN NoRow ELSE gone["wishlist_item"][i]]]
         [] name = "cart" ->
              [gone EXCEPT !["cart_item"] =
                  [i \in RowIds |-> IF gone["cart_item"][i].exists
                                       /\ gone["cart_item"][i].cart = pk
                                    THEN NoRow ELSE gone["cart_item"][i]]]
         [] OTHER -> gone

OtherTables == <<catalog, reviews, orders, downloads>>

\* ModelViewSet.list of the viewset of table 'name'.
ViewSet_list(name, user) ==
    /\ OneFamily(name)
    /\ request' = [action |-> "list", table |-> name, user |-> user]
    /\ IF ~IsAuthenticated(user)
       THEN \E status \in DeniedStatuses : response' = Denied(status)
       ELSE response' = Response(200, {Ref(name, pk) : pk \in get_queryset(name, user)})
    /\ UNCHANGED <<tables, OtherTables>>

\* ModelViewSet.retrieve: get_object() looks the key up in get_queryset().
ViewSet_retrieve(name, user, pk) ==
    /\ OneFamily(name)
    /\ request' = [action |-> "retrieve", table |-> name, user |-> user, pk |-> pk]
    /\ IF ~IsAuthenticated(user)
       THEN \E status \in DeniedStatuses : response' = Denied(status)
       ELSE IF pk \notin get_queryset(name, user)
       THEN response' = NotFound
       ELSE response' = Response(200, {Ref(name, pk)})
    /\ UNCHANGED <<tables, OtherTables>>

\* ModelViewSet.create: perform_create(serializer).
ViewSet_create(name, user, body) ==
    /\ OneFamily(name)
    /\ request' = [action |-> "create", table |-> name, user |-> user, body |-> body]
    /\ IF ~IsAuthenticated(user)
       THEN /\ \E status \in DeniedStatuses : response' = Denied(status)
            /\ UNCHANGED tables
       ELSE /\ FreePks(tables[name]) # {}
            /\ name \in ItemTables => CanGetOrCreate(tables, ParentOf(name), user)
            /\ LET saved == perform_create(tables, name, user, body)
               IN IF saved.raised
                  THEN /\ response' = MultipleObjectsReturned
                       /\ UNCHANGED tables
                  ELSE /\ tables' = saved.tables
                       /\ response' = Response(201, {Ref(name, saved.pk)})
    /\ UNCHANGED OtherTables

\* ModelViewSet.update / partial_update: get_object(), then serializer.save().
ViewSet_update(name, user, pk, body, action) ==
    /\ OneFamily(name)
    /\ request' = [action |-> action, table |-> name, user |-> user, pk |-> pk]
    /\ IF ~IsAuthenticated(user)
       THEN /\ \E status \in DeniedStatuses : response' = Denied(status)
            /\ UNCHANGED tables
       ELSE IF pk \notin get_queryset(name, user)
       THEN /\ response' = NotFound
            /\ UNCHANGED tables
       ELSE /\ tables' = [tables EXCEPT ![name][pk] = serializer_update(name, @, body)]
            /\ response' = Response(200, {Ref(name, pk)})
    /\ UNCHANGED OtherTables

\* ModelViewSet.destroy: get_object(), then instance.delete().
ViewSet_destroy(name, user, pk) ==
    /\ OneFamily(name)
    /\ request' = [action |-> "destroy", table |-> name, user |-> user, pk |-> pk]
    /\ IF ~IsAuthenticated(user)
       THEN /\ \E status \in DeniedStatuses : response' = Denied(status)
            /\ UNCHANGED tables
       ELSE IF pk \notin get_queryset(name, user)
       THEN /\ response' = NotFound
            /\ UNCHANGED tables
       ELSE /\ tables' = delete_row(tables, name, pk)
            /\ response' = Response(204, {})
    /\ UNCHANGED OtherTables

\* The detail=False actions that get or create the requester's own row:
\* ProfileViewSet.me (GET), WishlistViewSet.my_wishlist, CartViewSet.my_cart.
get_or_create_action(action, name, user) ==
    /\ OneFamily(name)
    /\ request' = [action |-> action, table |-> name, user |-> user]
    /\ IF ~IsAuthenticated(user)
       THEN /\ \E status \in DeniedStatuses : response' = Denied(status)
            /\ UNCHANGED tables
       ELSE /\ CanGetOrCreate(tables, name, user)
            /\ LET own == get_or_create(tables, name, user)
               IN IF own.raised
                  THEN /\ response' = MultipleObjectsReturned
                       /\ UNCHANGED tables
                  ELSE /\ tables' = own.tables
                       /\ response' = Response(200, {Ref(name, own.pk)})
    /\ UNCHANGED OtherTables

Profile_me_get(user) == get_or_create_action("me", "profile", user)
Wishlist_my_wishlist(user) == get_or_create_action("my_wishlist", "wishlist", user)
Cart_my_cart(user) == get_or_create_action("my_cart", "cart", user)

\* ProfileViewSet.me with PUT or PATCH: get or create, then save the body.
Profile_me_put(user, method, data) ==
    /\ OneFamily("profile")
    /\ request' = [action |-> "me", table |-> "profile", user |-> user, method |-> method]
    /\ IF ~IsAuthenticated(user)
       THEN /\ \E status \in DeniedStatuses : response' = Denied(status)
            /\ UNCHANGED tables
       ELSE /\ CanGetOrCreate(tables, "profile", user)
            /\ LET own == get_or_create(tables, "profile", user)
               IN IF own.raised
                  THEN /\ response' = MultipleObjectsReturned
                       /\ UNCHANGED tables
                  ELSE /\ tables' = [own.tables EXCEPT !["profile"][own.pk].data = data]
                       /\ response' = Response(200, {Ref("profile", own.pk)})
    /\ UNCHANGED OtherTables

\* WishlistViewSet.add_item
Wishlist_add_item(user, product_id) ==
    /\ OneFamily("wishlist")
    /\ request' = [action |-> "add_item", table |-> "wishlist", user |-> user,
                   product_id |-> product_id]
    /\ IF ~IsAuthenticated(user)
       THEN /\ \E status \in DeniedStatuses : response' = Denied(status)
            /\ UNCHANGED tables
       ELSE IF ~(product_id \in Pks(products) /\ products[product_id].is_available)
       THEN /\ response' = Response(404, {})
            /\ UNCHANGED tables
       ELSE /\ CanGetOrCreate(tables, "wishlist", user)
            /\ LET own == get_or_create(tables, "wishlist", user)
                   items == own.tables["wishlist_item"]
                   matches == {pk \in Pks(items) : items[pk].wishlist = own.pk
                                                   /\ items[pk].product = product_id}
               IN IF own.raised \/ Cardinality(matches) > 1
                  THEN /\ response' = MultipleObjectsReturned
                       /\ tables' = own.tables
                  ELSE IF matches # {}
                  THEN /\ response' = Response(200, {})
                       /\ tables' = own.tables
                  ELSE /\ FreePks(items) # {}
                       /\ tables' = [own.tables EXCEPT !["wishlist_item"][NextPk(items)] =
                                         [exists |-> TRUE, wishlist |-> own.pk,
                                          product |-> product_id]]
                       /\ response' = Response(201, {})
    /\ UNCHANGED OtherTables

\* WishlistViewSet.remove_item
Wishlist_remove_item(user, product_id) ==
    /\ OneFamily("wishlist")
    /\ request' = [action |-> "remove_item", table |-> "wishlist", user |-> user,
                   product_id |-> product_id]
    /\ IF ~IsAuthenticated(user)
       THEN /\ \E status \in DeniedStatuses : response' = Denied(status)
            /\ UNCHANGED tables
       ELSE LET mine == {pk \in Pks(wishlists) : wishlists[pk].user = user}
                matches == {pk \in Pks(wishlistItems) :
                               /\ wishlistItems[pk].wishlist \in mine
                               /\ wishlistItems[pk].product = product_id}
            IN IF mine = {} \/ (Cardinality(mine) = 1 /\ matches = {})
               THEN /\ response' = Response(404, {})
                    /\ UNCHANGED tables
               ELSE IF Cardinality(mine) > 1 \/ Cardinality(matches) > 1
               THEN /\ response' = MultipleObjectsReturned
                    /\ UNCHANGED tables
               ELSE /\ tables' = delete_row(tables, "wishlist_item",
                                            CHOOSE pk \in matches : TRUE)
                    /\ response' = Response(200, {})
    /\ UNCHANGED OtherTables

SeedOwnerProducts ==
    [pk \in ProductIds |-> [exists |-> TRUE, data |-> "a", is_available |-> (pk = 1),
                            stock |-> 1]]

InitOwner ==
    /\ catalog = [EmptyCatalog EXCEPT !["product"] = SeedOwnerProducts]
    /\ tables = EmptyTables
    /\ reviews = EmptyReviews
    /\ orders = EmptyOrders
    /\ downloads = IdleDownloads
    /\ request = NoRequest
    /\ response = NoResponse

\* These viewsets never look at is_staff: the requesters are two ordinary
\* users and an anonymous client.
Customers == {"alice", "bob", Anonymous}

NextOwner ==
    \/ \E name \in TableNames, user \in Customers : ViewSet_list(name, user)
    \/ \E name \in TableNames, user \in Customers, pk \in RowIds :
          ViewSet_retrieve(name, user, pk)
    \/ \E name \in TableNames, user \in Customers : \E body \in Bodies(name) :
          ViewSet_create(name, user, body)
    \/ \E name \in TableNames, user \in Customers, pk \in RowIds :
          \E body \in UpdateBodies(name), action \in {"update", "partial_update"} :
             ViewSet_update(name, user, pk, body, action)
    \/ \E name \in TableNames, user \in Customers, pk \in RowIds :
          ViewSet_destroy(name, user, pk)
    \/ \E user \in Customers : Profile_me_get(user)
    \/ \E user \in Customers, method \in {"PUT", "PATCH"}, data \in FieldValues :
          Profile_me_put(user, method, data)
    \/ \E user \in Customers : Wishlist_my_wishlist(user)
    \/ \E user \in Customers, product_id \in ProductIds : Wishlist_add_item(user, product_id)
    \/ \E user \in Customers, product_id \in ProductIds :
          Wishlist_remove_item(user, product_id)
    \/ \E user \in Customers : Cart_my_cart(user)
    \/ \E user \in Customers, pk \in RowIds, num \in 1..MaxStock :
          update_quantity(user, pk, [kind |-> "int", num |-> num])

SpecOwner == InitOwner /\ [][NextOwner]_vars

\* The user a row of a per-user table belongs to.
RowOwner(tbls, name, pk) ==
    CASE name \in {"profile", "wishlist", "cart"} -> tbls[name][pk].user
      [] name = "wishlist_item" -> tbls["wishlist"][tbls[name][pk].wishlist].user
      [] name = "cart_item" -> tbls["cart"][tbls[name][pk].cart].user

OwnerActions ==
    {"list", "retrieve", "create", "update", "partial_update", "destroy", "me", "my_wishlist",
     "add_item", "remove_item", "my_cart", "update_quantity"}

\* The objects a successful response of these endpoints carries.
ReturnedObjects(req, resp) ==
    IF req.action = "update_quantity"
    THEN {[table |-> "cart_item", id |-> resp.body.id]}
    ELSE resp.body

-----------------------------------------------------------------------------
(* The catalog viewsets: CategoryViewSet, BrandViewSet, TagViewSet,        *)
(* ProductViewSet, ProductImageViewSet, ProductFileViewSet                 *)

WriteActions == {"create", "update", "partial_update", "destroy"}
ReadActions == {"list", "retrieve"}

\* get_permissions, the same in the six viewsets.
Catalog_get_permissions_wrong(action, user) ==
    IF action \in {"create", "update", "partial_update"}
    THEN IsAdminUser(user)
    ELSE AllowAny(user)
Catalog_get_permissions(action, user) ==
    IF action \in {"create", "update", "partial_update", "destroy"}
    THEN IsAdminUser(user)
    ELSE AllowAny(user)

\* The queryset of a catalog viewset: Model.objects.all(), which
\* ProductViewSet.get_queryset narrows for non-staff.
Catalog_get_queryset(kind, user) ==
    IF kind = "product" THEN Product_get_queryset(user) ELSE Pks(catalog[kind])

\* The rows a create or update request's body can describe.
CatalogBodies(kind) ==
    CASE kind = "product" ->
            [exists : {TRUE}, data : FieldValues, is_available : BOOLEAN, stock : {1}]
      [] kind = "product_file" ->
            [exists : {TRUE}, data : FieldValues, downloads_count : {0}]
      [] OTHER -> [exists : {TRUE}, data : FieldValues]

\* The catalog tables do not read one another in these handlers; the model
\* explores one table at a time.
OneKind(kind) == \A other \in Kinds \ {kind} : Pks(catalog[other]) = {}

CatalogRequest(action, kind, user, pk) ==
    [action |-> "catalog", drf_action |-> action, kind |-> kind, user |-> user, pk |-> pk]

NonCatalog == <<reviews, tables, orders, downloads>>

Catalog_list(kind, user) ==
    /\ OneKind(kind)
    /\ request' = CatalogRequest("list", kind, user, 0)
    /\ IF ~Catalog_get_permissions("list", user)
       THEN \E status \in DeniedStatuses : response' = Denied(status)
       ELSE response' = Response(200, {[id |-> pk, row |-> catalog[kind][pk]] :
                                          pk \in Catalog_get_queryset(kind, user)})
    /\ UNCHANGED <<catalog, NonCatalog>>

Catalog_retrieve(kind, user, pk) ==
    /\ OneKind(kind)
    /\ request' = CatalogRequest("retrieve", kind, user, pk)
    /\ IF ~Catalog_get_permissions("retrieve", user)
       THEN \E status \in DeniedStatuses : response' = Denied(status)
       ELSE IF pk \notin Catalog_get_queryset(kind, user)
       THEN response' = NotFound
       ELSE response' = Response(200, {[id |-> pk, row |-> catalog[kind][pk]]})
    /\ UNCHANGED <<catalog, NonCatalog>>

Catalog_create(kind, user, body) ==
    /\ OneKind(kind)
    /\ request' = CatalogRequest("create", kind, user, 0)
    /\ IF ~Catalog_get_permissions("create", user)
       THEN /\ \E status \in DeniedStatuses : response' = Denied(status)
            /\ UNCHANGED catalog
       ELSE /\ FreePks(catalog[kind]) # {}
            /\ catalog' = [catalog EXCEPT ![kind][NextPk(catalog[kind])] = body]
            /\ response' = Response(201, {[id |-> NextPk(catalog[kind]), row |-> body]})
    /\ UNCHANGED NonCatalog

Catalog_update(kind, user, pk, body, action) ==
    /\ OneKind(kind)
    /\ request' = CatalogRequest(action, kind, user, pk)
    /\ IF ~Catalog_get_permissions(action, user)
       THEN /\ \E status \in DeniedStatuses : response' = Denied(status)
            /\ UNCHANGED catalog
       ELSE IF pk \notin Catalog_get_queryset(kind, user)
       THEN /\ response' = NotFound
            /\ UNCHANGED catalog
       ELSE /\ catalog' = [catalog EXCEPT ![kind][pk] = body]
            /\ response' = Response(200, {[id |-> pk, row |-> body]})
    /\ UNCHANGED NonCatalog

\* The rows of other tables that refer to a deleted object follow the
\* foreign keys' ON DELETE rule; the catalog specification starts with none.
Catalog_destroy(kind, user, pk) ==
    /\ OneKind(kind)
    /\ request' = CatalogRequest("destroy", kind, user, pk)
    /\ IF ~Catalog_get_permissions("destroy", user)
       THEN /\ \E status \in DeniedStatuses : response' = Denied(status)
            /\ UNCHANGED catalog
       ELSE IF pk \notin Catalog_get_queryset(kind, user)
       THEN /\ response' = NotFound
            /\ UNCHANGED catalog
       ELSE /\ catalog' = [catalog EXCEPT ![kind][pk] = NoRow]
            /\ response' = Response(204, {})
    /\ UNCHANGED NonCatalog

\* One table of the catalog seeded, as seed.py or the console leaves it.
InitCatalog ==
    /\ \E kind \in Kinds : \E rows \in [KindIds(kind) -> {NoRow} \cup CatalogBodies(kind)] :
          catalog = [EmptyCatalog EXCEPT ![kind] = rows]
    /\ reviews = EmptyReviews
    /\ tables = EmptyTables
    /\ orders = EmptyOrders
    /\ downloads = IdleDownloads
    /\ request = NoRequest
    /\ response = NoResponse

NextCatalog ==
    \/ \E kind \in Kinds, user \in Requesters : Catalog_list(kind, user)
    \/ \E kind \in Kinds, user \in Requesters : \E pk \in KindIds(kind) :
          Catalog_retrieve(kind, user, pk)
    \/ \E kind \in Kinds, user \in Requesters : \E body \in CatalogBodies(kind) :
          Catalog_create(kind, user, body)
    \/ \E kind \in Kinds, user \in Requesters :
          \E pk \in KindIds(kind), body \in CatalogBodies(kind),
             action \in {"update", "partial_update"} :
                Catalog_update(kind, user, pk, body, action)
    \/ \E kind \in Kinds, user \in Requesters : \E pk \in KindIds(kind) :
          Catalog_destroy(kind, user, pk)

SpecCatalog == InitCatalog /\ [][NextCatalog]_vars

\* C6: on the six catalog viewsets create, update, partial_update and destroy
\* are refused to every requester who is not staff and not refused to staff;
\* list and retrieve are refused to nobody, anonymous included; and a request
\* of a non-staff requester leaves categories, brands, tags, products and
\* product images as they were.
C6_CatalogWritesStaffOnly ==
    [][request'.action = "catalog" =>
        LET staff == request'.user = "admin"
            refused == response'.status \in {401, 403}
        IN /\ request'.drf_action \in {"create", "update", "partial_update", "destroy"}
                 => (refused <=> ~staff)
           /\ request'.drf_action \in {"list", "retrieve"} => ~refused
           /\ request'.drf_action = "list" => response'.status = 200
           /\ refused => catalog' = catalog
           /\ ~staff =>
                 \A kind \in {"category", "brand", "tag", "product", "product_image"} :
                    catalog'[kind] = catalog[kind]]_vars

\* alice, not staff, asked to destroy an existing object and was refused.
C6_Witness ==
    /\ request.action = "catalog"
    /\ request.drf_action = "destroy"
    /\ request.user = "alice"
    /\ response.status \in {401, 403}
    /\ request.pk \in KindIds(request.kind)
    /\ catalog[request.kind][request.pk].exists

-----------------------------------------------------------------------------
(* Orders: OrderViewSet, the OrderAdmin bulk actions and the PDF view      *)

\* The keys of Order.STATUS_CHOICES, as seed.py lists them.
STATUS_CHOICES == {"pending", "processing", "shipped", "delivered", "cancelled", "refunded"}

\* What request.data.get("status") can be besides a valid key.
StatusInputs == STATUS_CHOICES \cup {"archived"}

\* An order item: product name, price and item total in kopecks, quantity.
ItemPool ==
    {[name |-> "lamp", price |-> 1050, quantity |-> 2, total_price |-> 2100],
     [name |-> "desk", price |-> 99905, quantity |-> 1, total_price |-> 99905]}

NoteTexts == {[kind |-> "text", txt |-> ""], [kind |-> "text", txt |-> "call me"]}

\* The row Order.objects.create() / serializer.save() stores for a new order.
\* The status a new order gets is decided by OrderCreateSerializer and the
\* Order model, which are not in the source tree: Order_create leaves it
\* open among STATUS_CHOICES.
NewOrder(pk, user) ==
    [exists |-> TRUE, user |-> user, status |-> "pending", order_number |-> 1000 + pk,
     created_at |-> "05.11.2026 10:00", phone_number |-> "+7 900 000-00-00",
     shipping_address |-> "1 Main St", customer_notes |-> None, items |-> <<>>,
     total_amount |-> 0]

Order_get_queryset_wrong(user) ==
    IF is_authenticated(user) THEN Pks(orders) ELSE {}
Order_get_queryset(user) ==
    IF is_staff(user)
    THEN Pks(orders)
    ELSE {pk \in Pks(orders) : orders[pk].user = user}

OrderSerializer(pk, row) == [id |-> pk, user |-> row.user, status |-> row.status]

NonOrders == <<catalog, reviews, tables, downloads>>

Order_list(user) ==
    /\ request' = [action |-> "order_list", user |-> user]
    /\ IF ~IsAuthenticated(user)
       THEN \E status \in DeniedStatuses : response' = Denied(status)
       ELSE response' = Response(200, {OrderSerializer(pk, orders[pk]) :
                                          pk \in Order_get_queryset(user)})
    /\ UNCHANGED <<orders, NonOrders>>

Order_retrieve(user, pk) ==
    /\ request' = [action |-> "order_retrieve", user |-> user, pk |-> pk]
    /\ IF ~IsAuthenticated(user)
       THEN \E status \in DeniedStatuses : response' = Denied(status)
       ELSE IF pk \notin Order_get_queryset(user)
       THEN response' = NotFound
       ELSE response' = Response(200, {OrderSerializer(pk, orders[pk])})
    /\ UNCHANGED <<orders, NonOrders>>

\* What a create request's body says about the owner: no 'user', or a user.
OrderBodies == {[has_user |-> FALSE]} \cup [has_user : {TRUE}, user : Users]

\* OrderViewSet.perform_create: the owner of the order that is saved.
perform_create_owner_wrong(user, body) ==
    IF body.has_user
    THEN body.user
    ELSE user
perform_create_owner(user, body) ==
    IF is_staff(user) /\ body.has_user
    THEN body.user
    ELSE user

Order_create(user, body) ==
    /\ request' = [action |-> "order_create", user |-> user, body |-> body]
    /\ IF ~IsAuthenticated(user)
       THEN /\ \E status \in DeniedStatuses : response' = Denied(status)
            /\ UNCHANGED orders
       ELSE /\ FreePks(orders) # {}
            /\ \E status \in STATUS_CHOICES :
                  LET pk == NextPk(orders)
                      row == [NewOrder(pk, perform_create_owner(user, body))
                                 EXCEPT !.status = status]
                  IN /\ orders' = [orders EXCEPT ![pk] = row]
                     /\ response' = Response(201, {OrderSerializer(pk, row)})
    /\ UNCHANGED NonOrders

\* ModelViewSet.destroy on the requester's order queryset.
Order_destroy(user, pk) ==
    /\ request' = [action |-> "order_destroy", user |-> user, pk |-> pk]
    /\ IF ~IsAuthenticated(user)
       THEN /\ \E status \in DeniedStatuses : response' = Denied(status)
            /\ UNCHANGED orders
       ELSE IF pk \notin Order_get_queryset(user)
       THEN /\ response' = NotFound
            /\ UNCHANGED orders
       ELSE /\ orders' = [orders EXCEPT ![pk] = NoRow]
            /\ response' = Response(204, {})
    /\ UNCHANGED NonOrders

\* OrderViewSet.cancel: the statuses an order can be cancelled from.
cancellable_wrong(status) == status \in {"pending", "processing", "shipped"}
cancellable(status) == status \in {"pending", "processing"}

Order_cancel(user, pk) ==
    /\ request' = [action |-> "order_cancel", user |-> user, pk |-> pk]
    /\ IF ~IsAuthenticated(user)
       THEN /\ \E status \in DeniedStatuses : response' = Denied(status)
            /\ UNCHANGED orders
       ELSE IF pk \notin Order_get_queryset(user)
       THEN \* get_object() raises Http404 before the owner test of line 375
            /\ response' = NotFound
            /\ UNCHANGED orders
       ELSE IF orders[pk].user # user /\ ~is_staff(user)
       THEN /\ response' = Response(403, [error |-> "Permission denied"])
            /\ UNCHANGED orders
       ELSE IF ~cancellable(orders[pk].status)
       THEN /\ response' = Response(400, [error |-> "Order cannot be cancelled"])
            /\ UNCHANGED orders
       ELSE /\ orders' = [orders EXCEPT ![pk].status = "cancelled"]
            /\ response' = Response(200, {OrderSerializer(pk, orders'[pk])})
    /\ UNCHANGED NonOrders

\* new_status in dict(Order.STATUS_CHOICES).keys()  (line 395)
valid_status_short(new_status) == new_status \in STATUS_CHOICES \ {"refunded"}
valid_status_lax(new_status) == TRUE
valid_status(new_status) == new_status \in STATUS_CHOICES

Order_update_status(user, pk, new_status) ==
    /\ request' = [action |-> "order_update_status", user |-> user, pk |-> pk,
                   status |-> new_status]
    /\ IF ~IsAuthenticated(user)
       THEN /\ \E status \in DeniedStatuses : response' = Denied(status)
            /\ UNCHANGED orders
       ELSE IF ~is_staff(user)
       THEN /\ response' = Response(403, [error |-> "Permission denied"])
            /\ UNCHANGED orders
       ELSE IF pk \notin Order_get_queryset(user)
       THEN /\ response' = NotFound
            /\ UNCHANGED orders
       ELSE IF ~valid_status(new_status)
       THEN /\ response' = Response(400, [error |-> "Invalid status"])
            /\ UNCHANGED orders
       ELSE /\ orders' = [orders EXCEPT ![pk].status = new_status]
            /\ response' = Response(200, {OrderSerializer(pk, orders'[pk])})
    /\ UNCHANGED NonOrders

\* OrderAdmin.mark_as_processing / mark_as_shipped / mark_as_delivered:
\* queryset.update(status=...) on the orders selected in the console.
AdminActionStatus_wrong ==
    [mark_as_processing |-> "processing", mark_as_shipped |-> "shipped",
     mark_as_delivered |-> "shipped"]

AdminActionStatus ==
    [mark_as_processing |-> "processing", mark_as_shipped |-> "shipped",
     mark_as_delivered |-> "delivered"]

OrderAdmin_action(user, name, selected) ==
    /\ IsAdminUser(user)
    /\ selected # {}
    /\ selected \subseteq Pks(orders)
    /\ orders' = [pk \in OrderIds |->
                     IF pk \in selected
                     THEN [orders[pk] EXCEPT !.status = AdminActionStatus[name]]
                     ELSE orders[pk]]
    /\ request' = [action |-> name, user |-> user, selected |-> selected]
    /\ response' = Response(302, [detail |-> "changed"])
    /\ UNCHANGED NonOrders

-----------------------------------------------------------------------------
(* generate_order_pdf (api/utils.py), routed without any permission check  *)
(* at admin/orders/order/<order_id>/pdf/ (Project/urls.py).                *)
(* The Russian labels of the source are written in Latin letters here.     *)

\* f"{x:.2f} RUB" of an amount x held in kopecks.
fmt_2f(kopecks) ==
    ToString(kopecks \div 100) \o "."
        \o (IF kopecks % 100 < 10 THEN "0" ELSE "") \o ToString(kopecks % 100) \o " RUB"

str(n) == ToString(n)

\* Python truthiness of order.customer_notes: None and "" are false.
has_customer_notes_wrong(order) == order.customer_notes # None
has_customer_notes(order) ==
    order.customer_notes # None /\ order.customer_notes.txt # ""

\* order_info, lines 35-44
order_info(order) ==
    LET base == << <<"Data zakaza:", order.created_at>>,
                   <<"Status:", "display(" \o order.status \o ")">>,
                   <<"Pokupatel:", "full_name(" \o order.user \o ") (email(" \o order.user \o "))">>,
                   <<"Telefon:", order.phone_number>>,
                   <<"Adres dostavki:", order.shipping_address>> >>
    IN IF has_customer_notes(order)
       THEN Append(base, <<"Kommentariy:", order.customer_notes.txt>>)
       ELSE base

\* The rows appended for order.items.all(), lines 64-65
RECURSIVE item_rows(_)
item_rows(items) ==
    IF items = <<>>
    THEN <<>>
    ELSE << <<Head(items).name, fmt_2f(Head(items).price), str(Head(items).quantity),
              fmt_2f(Head(items).total_price)>> >> \o item_rows(Tail(items))

\* items_data, lines 63-68
items_data_wrong(order) ==
    << <<"Tovar", "Tsena", "Kol-vo", "Summa">> >>
        \o item_rows(order.items)
items_data(order) ==
    << <<"Tovar", "Tsena", "Kol-vo", "Summa">> >>
        \o item_rows(order.items)
        \o << <<"", "", "ITOGO:", fmt_2f(order.total_amount)>> >>

\* elements, in the order they are appended (lines 31-86)
pdf_elements(order) ==
    << [type |-> "Paragraph", style |-> "CustomTitle",
        text |-> "ZAKAZ No " \o ToString(order.order_number)],
       [type |-> "Spacer", height |-> 10],
       [type |-> "Table", rows |-> order_info(order)],
       [type |-> "Spacer", height |-> 20],
       [type |-> "Paragraph", style |-> "Heading2", text |-> "Sostav zakaza:"],
       [type |-> "Table", rows |-> items_data(order)] >>

generate_order_pdf(user, order_id) ==
    /\ request' = [action |-> "generate_order_pdf", user |-> user, order_id |-> order_id]
    /\ IF order_id \notin Pks(orders)
       THEN response' = NotFound
       ELSE response' = Response(200, [content_type |-> "application/pdf",
                                       order |-> order_id,
                                       elements |-> pdf_elements(orders[order_id])])
    /\ UNCHANGED <<orders, NonOrders>>

-----------------------------------------------------------------------------
(* Orders as seed.py leaves them, then order requests                      *)

RECURSIVE sum_total_price(_)
sum_total_price(items) ==
    IF items = <<>> THEN 0 ELSE Head(items).total_price + sum_total_price(Tail(items))

\* Command.create_orders: an order of a user in any of the six statuses,
\* with or without a customer note, whose total is the sum of its items.
SeedOrder(pk, user, status, notes, items) ==
    [NewOrder(pk, user) EXCEPT !.status = status, !.customer_notes = notes,
                               !.items = items, !.total_amount = sum_total_price(items)]

SeedOrders ==
    [OrderIds -> {NoRow}] \cup
    {[pk \in OrderIds |-> IF pk = 1 THEN first ELSE IF pk = 2 THEN second ELSE NoRow] :
        first \in {SeedOrder(1, "alice", status, None, <<>>) : status \in STATUS_CHOICES},
        second \in {NoRow} \cup
                   {SeedOrder(2, "bob", status, None, <<>>) : status \in STATUS_CHOICES}}

InitOrder ==
    /\ orders \in SeedOrders
    /\ catalog = EmptyCatalog
    /\ reviews = EmptyReviews
    /\ tables = EmptyTables
    /\ downloads = IdleDownloads
    /\ request = NoRequest
    /\ response = NoResponse

\* The life of the seeded orders: reads, cancel, update_status and the bulk
\* actions of the admin console.
NextOrder ==
    \/ \E user \in Requesters : Order_list(user)
    \/ \E user \in Requesters, pk \in OrderIds : Order_retrieve(user, pk)
    \/ \E user \in Requesters, pk \in OrderIds : Order_cancel(user, pk)
    \/ \E user \in Requesters, pk \in OrderIds, new_status \in StatusInputs :
          Order_update_status(user, pk, new_status)
    \/ \E user \in Users, name \in DOMAIN AdminActionStatus, selected \in SUBSET OrderIds :
          OrderAdmin_action(user, name, selected)

SpecOrder == InitOrder /\ [][NextOrder]_vars

\* Every way of reaching an order: the above, creating and deleting orders,
\* and the PDF route.
NextOrderAccess ==
    \/ \E user \in Requesters, order_id \in OrderIds : generate_order_pdf(user, order_id)
    \/ \E user \in Requesters, body \in OrderBodies : Order_create(user, body)
    \/ \E user \in Requesters, pk \in OrderIds : Order_destroy(user, pk)
    \/ NextOrder

SpecOrderAccess == InitOrder /\ [][NextOrderAccess]_vars

\* The orders a successful response of the last request reached.
ReachedOrders ==
    CASE request.action \in {"order_list", "order_retrieve", "order_create", "order_cancel",
                             "order_update_status"} -> {row.id : row \in response.body}
      [] request.action = "generate_order_pdf" -> {response.body.order}
      [] OTHER -> {}

\* The part of C7 that OrderViewSet decides: through list, retrieve, create,
\* cancel and update_status a non-staff requester reaches their own orders
\* only, and an order created by a non-staff requester is their own.
OrderViewSetScopedByOwner ==
    (/\ request.action \in {"order_list", "order_retrieve", "order_create", "order_cancel",
                            "order_update_status"}
     /\ request.user # "admin"
     /\ response.status \in {200, 201})
    => \A pk \in ReachedOrders : orders[pk].exists /\ orders[pk].user = request.user

\* C7: a non-staff requester lists, retrieves, cancels and otherwise reaches
\* only orders whose user is themselves (staff reach all); an order created
\* by a non-staff requester has that requester as owner.
C7_OrdersScopedByOwner ==
    (/\ request.action \in {"order_list", "order_retrieve", "order_create", "order_cancel",
                            "order_update_status", "generate_order_pdf"}
     /\ request.user # "admin"
     /\ response.status \in {200, 201})
    => \A pk \in ReachedOrders : orders[pk].exists /\ orders[pk].user = request.user

\* C10: OrderViewSet.cancel, asked by a requester who can reach the order
\* (its owner, or staff), sets the status to 'cancelled' when it is 'pending'
\* or 'processing' and otherwise answers 400 'Order cannot be cancelled' and
\* leaves the order alone; no cancel request changes an order in any other
\* way.
C10_CancelOnlyFromPendingOrProcessing ==
    [][request'.action = "order_cancel" =>
        LET pk == request'.pk
            user == request'.user
            reaches == /\ user \in Users
                       /\ orders[pk].exists
                       /\ (user = "admin" \/ orders[pk].user = user)
        IN /\ \A other \in OrderIds \ {pk} : orders'[other] = orders[other]
           /\ ~reaches => orders' = orders
           /\ reaches =>
                 IF orders[pk].status \in {"pending", "processing"}
                 THEN /\ orders'[pk] = [orders[pk] EXCEPT !.status = "cancelled"]
                      /\ response'.status = 200
                 ELSE /\ orders' = orders
                      /\ response' = [status |-> 400,
                                      body |-> [error |-> "Order cannot be cancelled"]]]_vars

\* bob asked to cancel his order that was already cancelled, and was refused.
C10_Witness ==
    /\ request.action = "order_cancel"
    /\ request.user = "bob"
    /\ orders[request.pk].exists
    /\ orders[request.pk].user = "bob"
    /\ orders[request.pk].status = "cancelled"
    /\ response = [status |-> 400, body |-> [error |-> "Order cannot be cancelled"]]

\* C11: a cancel request of a non-staff user on an existing order of another
\* user is answered 403 and the order stays as it was.
C11_CancelOfForeignOrderAnswers403 ==
    [][(/\ request'.action = "order_cancel"
        /\ request'.user \in {"alice", "bob"}
        /\ orders[request'.pk].exists
        /\ orders[request'.pk].user # request'.user)
       => /\ response'.status = 403
          /\ orders' = orders]_vars

\* What the code does keep of C11: such a request never changes an order.
CancelOfForeignOrderChangesNothing ==
    [][(/\ request'.action = "order_cancel"
        /\ request'.user \in {"alice", "bob"}
        /\ orders[request'.pk].exists
        /\ orders[request'.pk].user # request'.user)
       => /\ response'.status = 404
          /\ orders' = orders]_vars

\* C12: update_status answers an authenticated non-staff requester 403 and an
\* anonymous one 401 or 403, and changes no order; it answers a staff
\* requester 400 'Invalid status' for a value that is not one of the six
\* statuses, changing nothing; for one of the six it sets the order to that
\* status whatever the current status is, and changes nothing else.
C12_UpdateStatusStaffOnlyAnyTransition ==
    [][request'.action = "order_update_status" =>
        LET user == request'.user
            pk == request'.pk
            new_status == request'.status
            valid == new_status \in {"pending", "processing", "shipped", "delivered",
                                     "cancelled", "refunded"}
        IN /\ user \in {"alice", "bob"} =>
                 /\ response'.status = 403
                 /\ response'.body = [error |-> "Permission denied"]
                 /\ orders' = orders
           /\ user = Anonymous => response'.status \in {401, 403} /\ orders' = orders
           /\ (user = "admin" /\ ~orders[pk].exists) =>
                 response'.status = 404 /\ orders' = orders
           /\ (user = "admin" /\ orders[pk].exists /\ ~valid) =>
                 /\ response'.status = 400
                 /\ response'.body = [error |-> "Invalid status"]
                 /\ orders' = orders
           /\ (user = "admin" /\ orders[pk].exists /\ valid) =>
                 /\ response'.status = 200
                 /\ orders' = [orders EXCEPT ![pk].status = new_status]]_vars

\* Staff moved bob's order to 'pending'; every seeded status, 'cancelled',
\* 'delivered' and 'refunded' among them, is a status it can have had.
C12_Witness ==
    /\ request.action = "order_update_status"
    /\ request.user = "admin"
    /\ request.status = "pending"
    /\ response.status = 200
    /\ orders[request.pk].user = "bob"
    /\ orders[request.pk].status = "pending"

\* C13: the admin actions mark_as_processing, mark_as_shipped and
\* mark_as_delivered give every selected order the status 'processing',
\* 'shipped' and 'delivered' respectively, whatever its status was; the other
\* fields of the selected orders, the orders not selected and every other
\* table stay as they were.
C13_AdminActionsSetSelectedOnly ==
    [][request'.action \in {"mark_as_processing", "mark_as_shipped", "mark_as_delivered"} =>
        LET target == IF request'.action = "mark_as_processing" THEN "processing"
                      ELSE IF request'.action = "mark_as_shipped" THEN "shipped"
                      ELSE "delivered"
        IN /\ \A pk \in request'.selected :
                 /\ orders[pk].exists
                 /\ orders'[pk] = [orders[pk] EXCEPT !.status = target]
           /\ \A pk \in OrderIds \ request'.selected : orders'[pk] = orders[pk]
           /\ UNCHANGED NonOrders]_vars

\* mark_as_delivered ran on both orders, and alice's order is delivered with
\* bob's; the seeds give each of them every status, 'cancelled' and 'refunded'
\* included.
C13_Witness ==
    /\ request.action = "mark_as_delivered"
    /\ request.selected = {1, 2}
    /\ orders[1].status = "delivered"
    /\ orders[2].exists
    /\ orders[2].status = "delivered"

\* C14: every order's status is one of pending, processing, shipped,
\* delivered, cancelled, refunded, in every state reached from seeded orders
\* by cancel requests, update_status requests and admin actions of any user.
C14_StatusAlwaysOneOfSix ==
    \A pk \in OrderIds :
        orders[pk].exists =>
            orders[pk].status \in {"pending", "processing", "shipped", "delivered",
                                   "cancelled", "refunded"}

\* Staff asked for a status outside the six and the order kept one of them.
C14_Witness ==
    /\ request.action = "order_update_status"
    /\ request.user = "admin"
    /\ request.status = "archived"
    /\ orders[request.pk].exists
    /\ response.status = 400
    /\ C14_StatusAlwaysOneOfSix

\* C15: update_quantity on the requester's own cart item with a quantity that
\* is present but is not an integer is answered 400 'Invalid quantity' and
\* the cart item stays as it was.
C15_NonIntegerQuantityAnswers400 ==
    [][(/\ request'.action = "update_quantity"
        /\ OwnsCartItem(request'.user, request'.pk)
        /\ request'.quantity # None
        /\ ~IsIntegerQuantity(request'.quantity))
       => /\ response'.status = 400
          /\ response'.body = [error |-> "Invalid quantity"]
          /\ tables' = tables]_vars

\* What the code does keep of C15: such a request changes no table.
NonIntegerQuantityChangesNothing ==
    [][(/\ request'.action = "update_quantity"
        /\ OwnsCartItem(request'.user, request'.pk)
        /\ request'.quantity # None
        /\ ~IsIntegerQuantity(request'.quantity))
       => /\ response'.status = 500
          /\ tables' = tables
          /\ catalog' = catalog]_vars

-----------------------------------------------------------------------------
(* The PDF of one order as seed.py or the API leaves it: any status, with  *)
(* or without a customer note (also an empty one), up to MaxItems items.   *)

ItemLists == UNION {[1..n -> ItemPool] : n \in 0..MaxItems}

InitPdf ==
    /\ \E user \in {"alice", "bob"}, status \in STATUS_CHOICES,
          notes \in {None} \cup NoteTexts, items \in ItemLists :
          orders = [pk \in OrderIds |->
                       IF pk = 1 THEN SeedOrder(1, user, status, notes, items) ELSE NoRow]
    /\ catalog = EmptyCatalog
    /\ reviews = EmptyReviews
    /\ tables = EmptyTables
    /\ downloads = IdleDownloads
    /\ request = NoRequest
    /\ response = NoResponse

NextPdf ==
    \E user \in Requesters, order_id \in OrderIds : generate_order_pdf(user, order_id)

SpecPdf == InitPdf /\ [][NextPdf]_vars

Min2(set) == CHOOSE x \in set : \A y \in set : x <= y
Max2(set) == CHOOSE x \in set : \A y \in set : x >= y

\* The positions of the tables among the elements of a document.
TablePositions(elements) ==
    {i \in 1..Len(elements) : elements[i].type = "Table"}

\* C8: for an existing order generate_order_pdf answers a document whose
\* first element is the title with the order number, followed by exactly two
\* tables: first the metadata table of five rows (date, status, buyer, phone,
\* shipping address) and a sixth comment row iff customer_notes is non-empty,
\* then the item table of one header row, one row per order item (name,
\* price, quantity, item total) and a last row showing order.total_amount.
C8_PdfStructure ==
    (request.action = "generate_order_pdf" /\ orders[request.order_id].exists) =>
        LET order == orders[request.order_id]
            elements == response.body.elements
            meta == elements[Min2(TablePositions(elements))].rows
            lines == elements[Max2(TablePositions(elements))].rows
            n == Len(order.items)
            noted == order.customer_notes # None /\ order.customer_notes.txt # ""
        IN /\ response.status = 200
           /\ elements[1].type = "Paragraph"
           /\ elements[1].text = "ZAKAZ No " \o ToString(order.order_number)
           /\ Cardinality(TablePositions(elements)) = 2
           /\ 1 < Min2(TablePositions(elements))
           /\ Len(meta) = IF noted THEN 6 ELSE 5
           /\ <<meta[1][1], meta[2][1], meta[3][1], meta[4][1], meta[5][1]>>
                 = <<"Data zakaza:", "Status:", "Pokupatel:", "Telefon:", "Adres dostavki:">>
           /\ meta[4][2] = order.phone_number
           /\ meta[5][2] = order.shipping_address
           /\ noted => meta[6] = <<"Kommentariy:", order.customer_notes.txt>>
           /\ Len(lines) = n + 2
           /\ lines[1] = <<"Tovar", "Tsena", "Kol-vo", "Summa">>
           /\ \A i \in 1..n :
                 lines[i + 1] = <<order.items[i].name, fmt_2f(order.items[i].price),
                                  ToString(order.items[i].quantity),
                                  fmt_2f(order.items[i].total_price)>>
           /\ lines[n + 2][3] = "ITOGO:"
           /\ lines[n + 2][4] = fmt_2f(order.total_amount)

C8_Witness ==
    /\ request.action = "generate_order_pdf"
    /\ response.status = 200
    /\ orders[request.order_id].customer_notes = [kind |-> "text", txt |-> "call me"]
    /\ Len(orders[request.order_id].items) = 2
    /\ Len(response.body.elements[3].rows) = 6
    /\ Len(response.body.elements[6].rows) = 4

-----------------------------------------------------------------------------
(* ProductFileViewSet.download, views.py lines 178-183.  Requests are      *)
(* served concurrently, one per slot; a request reads the row in           *)
(* get_object() and writes it back in save(), and other requests may run   *)
(* between the two.                                                        *)

files == catalog["product_file"]

\* product_file = self.get_object()  (line 180): the permission is AllowAny,
\* a missing row answers 404, otherwise the row is read into the instance.
download_get_object(slot, user, pk) ==
    /\ downloads[slot].pc = "idle"
    /\ request' = [action |-> "download", user |-> user, pk |-> pk, slot |-> slot]
    /\ IF ~Catalog_get_permissions("download", user)
       THEN /\ \E status \in DeniedStatuses : response' = Denied(status)
            /\ downloads' = [downloads EXCEPT ![slot] = [Idle EXCEPT !.pc = "refused"]]
       ELSE IF pk \notin Pks(files)
       THEN /\ response' = NotFound
            /\ downloads' = [downloads EXCEPT ![slot] = [Idle EXCEPT !.pc = "refused"]]
       ELSE /\ response' = response
            /\ downloads' = [downloads EXCEPT ![slot] =
                  [pc |-> "loaded", pk |-> pk, downloads_count |-> files[pk].downloads_count]]
    /\ UNCHANGED <<catalog, reviews, tables, orders>>

\* product_file.downloads_count += 1; product_file.save(); return Response
\* (lines 181-183): the instance's count, not the row's, is raised and
\* written, and the response reports it.
download_save(slot) ==
    LET pk == downloads[slot].pk
        count == downloads[slot].downloads_count + 1
    IN /\ downloads[slot].pc = "loaded"
       /\ catalog' = [catalog EXCEPT !["product_file"][pk].downloads_count = count]
       /\ downloads' = [downloads EXCEPT ![slot] =
                           [pc |-> "done", pk |-> pk, downloads_count |-> count]]
       /\ response' = Response(200, [message |-> "Download counted",
                                     downloads_count |-> count])
       /\ UNCHANGED <<request, reviews, tables, orders>>

\* Product files as seed.py leaves them: never downloaded.
InitDownload ==
    /\ \E rows \in [CatalogIds -> {NoRow} \cup
                       [exists : {TRUE}, data : FieldValues, downloads_count : {0}]] :
          /\ rows[1].exists
          /\ catalog = [EmptyCatalog EXCEPT !["product_file"] = rows]
    /\ reviews = EmptyReviews
    /\ tables = EmptyTables
    /\ orders = EmptyOrders
    /\ downloads = IdleDownloads
    /\ request = NoRequest
    /\ response = NoResponse

NextDownload ==
    \/ \E slot \in RequestSlots, user \in Requesters, pk \in CatalogIds :
          download_get_object(slot, user, pk)
    \/ \E slot \in RequestSlots : download_save(slot)

SpecDownload == InitDownload /\ [][NextDownload]_vars

\* The download requests on file pk that have completed.
Completed(pk) ==
    {slot \in RequestSlots : downloads[slot].pc = "done" /\ downloads[slot].pk = pk}

\* C9: once every download request that was started has completed, the
\* downloads_count of each file has grown by exactly the number of requests
\* completed on it, and no two of their responses report the same count.
C9_DownloadsCountedOncePerRequest ==
    (\A slot \in RequestSlots : downloads[slot].pc # "loaded") =>
        \A pk \in Pks(files) :
            /\ files[pk].downloads_count = Cardinality(Completed(pk))
            /\ \A s1, s2 \in Completed(pk) :
                  s1 # s2 => downloads[s1].downloads_count # downloads[s2].downloads_count

====
